---- MODULE Spec2Model ----
(***************************************************************************)
(* The authenticated device-registry and notification-relay core:          *)
(* the before_request gate of app.py, the handlers of app.py,              *)
(* routes_firebase.py and routes_notify.py, and the three external         *)
(* collaborators they call (the Firestore "devices" collection, the push   *)
(* service, the text-generation service).                                  *)
(*                                                                         *)
(* A handler that makes at most one external call is one atomic action.    *)
(* /notify makes two (a store read, then a push send): it is two actions,  *)
(* NotifyRequest and NotifySend, and other requests may run in between.    *)
(***************************************************************************)
EXTENDS Integers, Sequences, FiniteSets, TLC

VARIABLES
    API_KEY,    \* os.environ['API_KEY'] as os.environ.get returns it
    store,      \* the "devices" collection: document id -> field map
    clock,      \* the store's server clock (last timestamp handed out)
    inflight,   \* /notify requests between their store read and push send
    last        \* the request that completed last, its response, its calls

vars == <<API_KEY, store, clock, inflight, last>>

-----------------------------------------------------------------------------
(* Bounds of the model *)

\* the store hands out at most MaxClock server timestamps
MaxClock == 2

-----------------------------------------------------------------------------
(* JSON / Python values *)

Null == [t |-> "null"]                  \* None
Str(s) == [t |-> "str", v |-> s]
Ts(n) == [t |-> "ts", v |-> n]          \* a timestamp stored by the server
Num(n) == [t |-> "num", v |-> n]        \* JSON number
Bool(b) == [t |-> "bool", v |-> b]      \* JSON true / false
Arr(s) == [t |-> "list", v |-> s]       \* JSON array
Obj(d) == [t |-> "dict", v |-> d]       \* JSON object
SERVER_TIMESTAMP == [t |-> "sentinel"]  \* firestore.SERVER_TIMESTAMP

EmptyDict == [k \in {} |-> Null]

\* truthiness taken for `is not None`
TruthyNotNone(x) == x.t # "null"

\* Python truthiness, `not x` is ~Truthy(x)
Truthy(x) ==
    CASE x.t = "null" -> FALSE
      [] x.t = "str" -> x.v # ""
      [] x.t = "num" -> x.v # 0
      [] x.t = "bool" -> x.v
      [] x.t = "list" -> x.v # <<>>
      [] x.t = "dict" -> DOMAIN x.v # {}
      [] OTHER -> TRUE

\* dict.get(key) and dict.get(key, default)
Get(d, k) == IF k \in DOMAIN d THEN d[k] ELSE Null
GetDefault(d, k, default) == IF k \in DOMAIN d THEN d[k] ELSE default

\* jsonify(<object>), with its status code
Jsonify(obj, code) ==
    [status |-> code, kind |-> "object", ctype |-> "application/json", body |-> obj]

-----------------------------------------------------------------------------
(* Inputs *)

Secret == "s3cret"
DeviceIds == {"d1", "d2"}
Tokens == {"tA", "tB"}

\* values of the process environment variable
EnvValues == {Null, Str(""), Str(Secret)}
\* values of the X-API-Key header (Null: the header is absent)
KeyValues == {Null, Str(""), Str(Secret), Str("S3CRET")}
Methods == {"OPTIONS", "GET", "POST"}
\* the server threads that can be inside notify() between its two calls
NotifyWorkers == {"w1"}

\* every dict over a subset of the keys of `f`, each key k drawn from f[k]
Dicts(f) ==
    UNION { [ks -> UNION {f[k] : k \in ks}] : ks \in SUBSET (DOMAIN f) }

WellTyped(d, f) == \A k \in DOMAIN d : d[k] \in f[k]

Bodies(f) == { d \in Dicts(f) : WellTyped(d, f) }

DeviceIdValues == {Null, Str("")} \cup {Str(d) : d \in DeviceIds}
TokenValues == {Null, Str("")} \cup {Str(t) : t \in Tokens}
\* device_id values of every JSON type, falsy and truthy
TypedDeviceIdValues ==
    DeviceIdValues \cup
    { Num(0), Num(5), Bool(FALSE), Bool(TRUE),
      Arr(<<>>), Arr(<<Str("d1")>>), Obj(EmptyDict), Obj([id |-> Str("d1")]) }
MessageValues == {Null, Str(""), Str("hi"), Str("<i>&")}

-----------------------------------------------------------------------------
(* The HTTP surface: routes, requests, responses *)

Routes == {"/health", "/chat", "/llm", "/register-device", "/notify", "/devices", "/heartbeat"}
GatedRoutes == Routes \ {"/health"}

\* the method each route is registered with
RouteMethod ==
    [r \in Routes |-> IF r \in {"/health", "/devices"} THEN "GET" ELSE "POST"]

\* the view function each route is registered under
RouteEndpoint ==
    [r \in Routes |->
        CASE r = "/health" -> "health"
          [] r = "/chat" -> "chat"
          [] r = "/llm" -> "llm"
          [] r = "/register-device" -> "firebase.register_device"
          [] r = "/notify" -> "notify.notify"
          [] r = "/devices" -> "notify.devices"
          [] r = "/heartbeat" -> "notify.heartbeat"]

\* the JSON bodies drawn for a route (a key may be absent from the object)
RouteBodies(r) ==
    CASE r \in {"/chat", "/llm"} -> Bodies([message |-> MessageValues])
      [] r = "/register-device" ->
            Bodies([device_id |-> DeviceIdValues, fcm_token |-> TokenValues])
      [] r = "/heartbeat" -> Bodies([device_id |-> DeviceIdValues])
      [] r = "/notify" ->
            Bodies([device_id |-> DeviceIdValues, title |-> {Str("T")}, body |-> {Str("B")}])
      [] OTHER -> {EmptyDict}

Request(m, r, k, d) == [method |-> m, route |-> r, key |-> k, data |-> d]

\* a body with which the route's handler, if it runs, calls a collaborator
CanonicalBody(r) ==
    CASE r \in {"/chat", "/llm"} -> [message |-> Str("hi")]
      [] r = "/register-device" -> [device_id |-> Str("d1"), fcm_token |-> Str("tA")]
      [] r = "/heartbeat" -> [device_id |-> Str("d1")]
      [] r = "/notify" -> [device_id |-> Str("d1"), title |-> Str("T"), body |-> Str("B")]
      [] OTHER -> EmptyDict

\* the canonical body of r with each value of TypedDeviceIdValues as its
\* device_id, and without device_id
TypedBodies(r) ==
    IF "device_id" \in DOMAIN CanonicalBody(r)
    THEN { [CanonicalBody(r) EXCEPT !.device_id = v] : v \in TypedDeviceIdValues }
         \cup { [k \in DOMAIN CanonicalBody(r) \ {"device_id"} |-> CanonicalBody(r)[k]] }
    ELSE { CanonicalBody(r) }

\* the bodies of r that name a device (every token, default title and
\* body); the canonical body for a route that takes no device_id
RaceBodies(r) ==
    IF "device_id" \in DOMAIN CanonicalBody(r)
    THEN { b \in RouteBodies(r) :
             /\ Truthy(Get(b, "device_id"))
             /\ DOMAIN b \cap {"title", "body"} = {} }
    ELSE { CanonicalBody(r) }

\* the requests drawn for route r. "core", the registry and relay runs:
\* correctly keyed, the route's own method, every body. "gate", the gate
\* runs: every method and header value, one body. "typed": correctly
\* keyed, the route's own method, a device_id of every JSON type. "race",
\* the runs of concurrent registrations and notifications: correctly
\* keyed, the route's own method, every device and token.
Requests(profile, r) ==
    IF profile = "core"
    THEN { Request(RouteMethod[r], r, Str(Secret), d) : d \in RouteBodies(r) }
    ELSE IF profile = "gate"
    THEN { Request(m, r, k, CanonicalBody(r)) : m \in Methods, k \in KeyValues }
    ELSE IF profile = "typed"
    THEN { Request(RouteMethod[r], r, Str(Secret), d) : d \in TypedBodies(r) }
    ELSE { Request(RouteMethod[r], r, Str(Secret), d) : d \in RaceBodies(r) }

\* request.endpoint: the matched rule's endpoint, None when the method
\* matches no rule of the path (the routing exception is raised later, in
\* dispatch, after the before_request functions)
Endpoint(req) ==
    IF req.method \in {RouteMethod[req.route], "OPTIONS"}
    THEN Str(RouteEndpoint[req.route])
    ELSE Null

\* the automatic OPTIONS response, 405 Method Not Allowed, and the
\* 500 Internal Server Error page of an exception no handler catches
OptionsResponse ==
    [status |-> 200, kind |-> "empty", ctype |-> "text/html", body |-> EmptyDict]
MethodNotAllowed ==
    [status |-> 405, kind |-> "html", ctype |-> "text/html", body |-> EmptyDict]
InternalServerError ==
    [status |-> 500, kind |-> "html", ctype |-> "text/html", body |-> EmptyDict]

NoRequest == [method |-> "", route |-> "", key |-> Null, data |-> EmptyDict]
NoResponse == [status |-> 0, kind |-> "empty", ctype |-> "", body |-> EmptyDict]

-----------------------------------------------------------------------------
(* The authentication gate *)

\* a before_request function that returns None lets the request go on
Pass == Null

\* str.lower() on the header values drawn
Lower(x) == IF x = Str("S3CRET") THEN Str("s3cret") ELSE x

\* the gate comparing the key without regard to case
require_api_key_nocase(req) ==
    IF req.method = "OPTIONS" THEN Pass
    ELSE IF Endpoint(req) \in {Str("health"), Str("admin_dashboard")} THEN Pass
    ELSE IF ~Truthy(API_KEY) THEN Pass
    ELSE IF Lower(req.key) # Lower(API_KEY)
         THEN Jsonify([error |-> "Unauthorized - valid API key required"], 401)
         ELSE Pass

\* the gate without the exemption of the health check
require_api_key_nohealth(req) ==
    IF req.method = "OPTIONS" THEN Pass
    ELSE IF ~Truthy(API_KEY) THEN Pass
    ELSE IF req.key # API_KEY
         THEN Jsonify([error |-> "Unauthorized - valid API key required"], 401)
         ELSE Pass

\* the gate failing closed when no secret is configured
require_api_key_failclosed(req) ==
    IF req.method = "OPTIONS" THEN Pass
    ELSE IF Endpoint(req) \in {Str("health"), Str("admin_dashboard")} THEN Pass
    ELSE IF req.key # API_KEY \/ ~Truthy(API_KEY)
         THEN Jsonify([error |-> "Unauthorized - valid API key required"], 401)
         ELSE Pass

require_api_key(req) ==
    IF req.method = "OPTIONS" THEN Pass
    ELSE IF Endpoint(req) \in {Str("health"), Str("admin_dashboard")} THEN Pass
    ELSE LET api_key == req.key
             expected_key == API_KEY
         IN  IF ~Truthy(expected_key) THEN Pass
             ELSE IF api_key # expected_key
                  THEN Jsonify([error |-> "Unauthorized - valid API key required"], 401)
                  ELSE Pass

-----------------------------------------------------------------------------
(* The Document Store: the "devices" collection *)

\* set(fields) without merge=True: the field map is replaced
MergeReplace(doc, fields, now) ==
    [k \in DOMAIN fields |->
        IF fields[k] = SERVER_TIMESTAMP THEN Ts(now) ELSE fields[k]]

\* set(fields, merge=True) on a field map; the server replaces the
\* SERVER_TIMESTAMP sentinel by its time `now`
Merge(doc, fields, now) ==
    [k \in DOMAIN doc \cup DOMAIN fields |->
        IF k \in DOMAIN fields
        THEN (IF fields[k] = SERVER_TIMESTAMP THEN Ts(now) ELSE fields[k])
        ELSE doc[k]]

\* document(id).set(fields, merge=True): create the document or merge into it
Upsert(st, id, fields, now) ==
    [d \in DOMAIN st \cup {id} |->
        IF d = id
        THEN Merge(IF id \in DOMAIN st THEN st[id] ELSE EmptyDict, fields, now)
        ELSE st[d]]

\* the store calls a request makes are logged as records of this shape
\* (ok: the call answered; ~ok: it raised)
SetOp(id, fields, ok) ==
    [op |-> "set", id |-> id, fields |-> fields, merge |-> TRUE, ok |-> ok]
GetOp(id, ok) ==
    [op |-> "get", id |-> id, fields |-> EmptyDict, merge |-> FALSE, ok |-> ok]
StreamOp(ok) ==
    [op |-> "stream", id |-> "", fields |-> EmptyDict, merge |-> FALSE, ok |-> ok]

-----------------------------------------------------------------------------
(* The external collaborators' answers *)

\* a store call answers, or raises (the call then had no effect)
StoreOutcomes == {"ok", "error"}

\* collection("devices").document(device_id).<call>: as any store call for
\* a string id; for an id of another type the store client raises
DocumentOutcomes(device_id) ==
    IF device_id.t = "str" THEN StoreOutcomes ELSE {"error"}

\* messaging.send returns a message id or raises with the provider's text
PushOutcomes ==
    { [ok |-> TRUE, text |-> "msg-1"],
      [ok |-> FALSE, text |-> "E1"], [ok |-> FALSE, text |-> "E2"] }

\* the status codes the generation service answers with
LlmStatuses == {200, 201, 300, 404, 500}

\* requests.post(...): a response (ok) with its status code, text and
\* declared content type, or a RequestException raised by the transport
\* (timeout, connection refused) with its message
LlmOutcomes ==
    { [ok |-> TRUE, status |-> s, text |-> x, ctype |-> c] :
        s \in LlmStatuses, x \in {"", "{gen}"}, c \in {"application/json", "text/plain"} }
    \cup
    { [ok |-> FALSE, status |-> 0, text |-> e, ctype |-> ""] :
        e \in {"timeout", "refused"} }

\* r.raise_for_status() raises HTTPError: client and server error statuses
RaisesForStatus(r) == r.status >= 400 /\ r.status < 600

-----------------------------------------------------------------------------
(* Completion of a request *)

\* the request is answered: `last` records it with the calls it made
Reply(req, resp, ops, sends, posts) ==
    last' = [req |-> req, resp |-> resp, ops |-> ops, sends |-> sends, posts |-> posts]

\* no response is on its way out
Idle == last.req = NoRequest

-----------------------------------------------------------------------------
(* app.py: /health, /chat, /llm *)

health(req) ==
    /\ Reply(req, Jsonify([status |-> "ok", time |-> "<utc now>"], 200), <<>>, <<>>, <<>>)
    /\ UNCHANGED <<API_KEY, store, clock, inflight>>

\* html.escape() on the messages drawn
Escape(s) == IF s = "<i>&" THEN "&lt;i&gt;&amp;" ELSE s

\* the echo with its message escaped for HTML
EchoEscaped(msg) == "Echo: " \o Escape(msg.v)

\* f"Echo: {msg}"
Echo(msg) == "Echo: " \o msg.v

chat(req) ==
    LET data == req.data
        msg == GetDefault(data, "message", Str(""))
    IN  /\ IF ~Truthy(msg)
           THEN Reply(req, Jsonify([error |-> "message field is required"], 400),
                      <<>>, <<>>, <<>>)
           ELSE Reply(req, Jsonify([response |-> Echo(msg)], 200), <<>>, <<>>, <<>>)
        /\ UNCHANGED <<API_KEY, store, clock, inflight>>

\* the payload posted to the generation service
LlmPayload(msg) == [model |-> "llama3.2:3b", prompt |-> msg.v]

\* llm() relaying the provider's text without looking at it
LlmResponseUnchecked(r) ==
    IF r.ok /\ ~RaisesForStatus(r)
    THEN [status |-> r.status, kind |-> "raw", ctype |-> "application/json",
          body |-> [text |-> r.text]]
    ELSE Jsonify([error |-> "LLM service unavailable"], 503)

\* the response llm() builds from the provider's answer
LlmResponse(r) ==
    IF r.ok /\ ~RaisesForStatus(r)
    THEN IF r.text # ""
         THEN [status |-> r.status, kind |-> "raw", ctype |-> "application/json",
               body |-> [text |-> r.text]]
         ELSE Jsonify([error |-> "Empty response from LLM service"], 502)
    ELSE Jsonify([error |-> "LLM service unavailable"], 503)

llm(req) ==
    LET data == req.data
        msg == GetDefault(data, "message", Str(""))
    IN  /\ IF ~Truthy(msg)
           THEN Reply(req, Jsonify([error |-> "message field is required"], 400),
                      <<>>, <<>>, <<>>)
           ELSE \E r \in LlmOutcomes :
                    Reply(req, LlmResponse(r), <<>>, <<>>, <<[payload |-> LlmPayload(msg), result |-> r]>>)
        /\ UNCHANGED <<API_KEY, store, clock, inflight>>

-----------------------------------------------------------------------------
(* routes_firebase.py: /register-device *)

\* a registration that also resets the time the device was last seen
RegisterFieldsResetSeen(token) ==
    [fcm_token |-> token, status |-> Str("online"), last_seen |-> Null]

\* the fields register_device writes
RegisterFields(token) == [fcm_token |-> token, status |-> Str("online")]

\* register_device() also pushing a confirmation to the new token
register_device_confirming(req) ==
    LET data == req.data
        device_id == Get(data, "device_id")
        token == Get(data, "fcm_token")
    IN  IF ~Truthy(device_id)
        THEN /\ Reply(req, Jsonify([error |-> "missing device_id"], 400), <<>>, <<>>, <<>>)
             /\ UNCHANGED <<API_KEY, store, clock, inflight>>
        ELSE \E outcome \in DocumentOutcomes(device_id) :
               /\ IF outcome = "ok"
                  THEN /\ store' = Upsert(store, device_id.v, RegisterFields(token), clock)
                       /\ \E r \in PushOutcomes :
                            Reply(req,
                                  Jsonify([result |-> "registered", device_id |-> device_id], 200),
                                  <<SetOp(device_id.v, RegisterFields(token), TRUE)>>,
                                  <<[msg |-> [token |-> token, title |-> Str("AJNA"),
                                              body |-> Str("registered")],
                                     result |-> r]>>,
                                  <<>>)
                  ELSE /\ store' = store
                       /\ Reply(req, InternalServerError,
                                <<SetOp(device_id.v, RegisterFields(token), FALSE)>>, <<>>, <<>>)
               /\ UNCHANGED <<API_KEY, clock, inflight>>

register_device(req) ==
    LET data == req.data
        device_id == Get(data, "device_id")
        token == Get(data, "fcm_token")
    IN  IF ~Truthy(device_id)
        THEN /\ Reply(req, Jsonify([error |-> "missing device_id"], 400), <<>>, <<>>, <<>>)
             /\ UNCHANGED <<API_KEY, store, clock, inflight>>
        ELSE \E outcome \in DocumentOutcomes(device_id) :
               /\ IF outcome = "ok"
                  THEN /\ store' = Upsert(store, device_id.v, RegisterFields(token), clock)
                       /\ Reply(req,
                                Jsonify([result |-> "registered", device_id |-> device_id], 200),
                                <<SetOp(device_id.v, RegisterFields(token), TRUE)>>, <<>>, <<>>)
                  ELSE /\ store' = store
                       /\ Reply(req, InternalServerError,
                                <<SetOp(device_id.v, RegisterFields(token), FALSE)>>, <<>>, <<>>)
               /\ UNCHANGED <<API_KEY, clock, inflight>>

-----------------------------------------------------------------------------
(* routes_notify.py: /notify, /devices, /heartbeat *)

\* a title default other than the product name
NotifyTitleBlank(data) == GetDefault(data, "title", Str(""))

\* the title and body notify() sends
NotifyTitle(data) == GetDefault(data, "title", Str("AJNA"))
NotifyBody(data) == GetDefault(data, "body", Str(""))

\* messaging.Message(notification=Notification(title, body), token=token)
Message(token, title, body) == [token |-> token, title |-> title, body |-> body]

\* lines 13-16 of notify(): the answer for the document read, or the token
\* to send to (doc is the field map, or NoDocument when exists is false)
NoDocument == [t |-> "missing"]

\* the lookup without the exists test: a missing document reads as {}
DeviceTokenNoExists(doc) ==
    LET token == IF doc = NoDocument THEN Null ELSE Get(doc, "fcm_token")
    IN  IF ~Truthy(token)
        THEN [found |-> FALSE,
              resp |-> Jsonify([error |-> "no fcm_token for device"], 400)]
        ELSE [found |-> TRUE, token |-> token]

\* the lookup answering "unknown device" for a record without a token too
DeviceTokenUnknownIfNone(doc) ==
    LET token == IF doc = NoDocument THEN Null ELSE Get(doc, "fcm_token")
    IN  IF ~Truthy(token)
        THEN [found |-> FALSE, resp |-> Jsonify([error |-> "unknown device"], 404)]
        ELSE [found |-> TRUE, token |-> token]

DeviceToken(doc) ==
    IF doc = NoDocument
    THEN [found |-> FALSE, resp |-> Jsonify([error |-> "unknown device"], 404)]
    ELSE LET token == Get(doc, "fcm_token")
         IN  IF ~Truthy(token)
             THEN [found |-> FALSE,
                   resp |-> Jsonify([error |-> "no fcm_token for device"], 400)]
             ELSE [found |-> TRUE, token |-> token]

\* document(id).get()
GetDocument(st, id) == IF id \in DOMAIN st THEN st[id] ELSE NoDocument

\* notify() up to the push send: validation and the store read
notify(req) ==
    LET data == req.data
        device_id == Get(data, "device_id")
        title == NotifyTitle(data)
        body == NotifyBody(data)
    IN  IF ~Truthy(device_id)
        THEN /\ Reply(req, Jsonify([error |-> "missing device_id"], 400), <<>>, <<>>, <<>>)
             /\ UNCHANGED <<API_KEY, store, clock, inflight>>
        ELSE \E outcome \in DocumentOutcomes(device_id) :
               IF outcome = "error"
               THEN /\ Reply(req, InternalServerError,
                             <<GetOp(device_id.v, FALSE)>>, <<>>, <<>>)
                    /\ UNCHANGED <<API_KEY, store, clock, inflight>>
               ELSE LET got == DeviceToken(GetDocument(store, device_id.v))
                    IN  IF ~got.found
                        THEN /\ Reply(req, got.resp, <<GetOp(device_id.v, TRUE)>>, <<>>, <<>>)
                             /\ UNCHANGED <<API_KEY, store, clock, inflight>>
                        ELSE \E w \in NotifyWorkers \ DOMAIN inflight :
                             /\ inflight' =
                                    [x \in DOMAIN inflight \cup {w} |->
                                        IF x = w
                                        THEN [req |-> req,
                                              ops |-> <<GetOp(device_id.v, TRUE)>>,
                                              msg |-> Message(got.token, title, body)]
                                        ELSE inflight[x]]
                             /\ UNCHANGED <<API_KEY, store, clock, last>>

\* the response notify() builds from the push service's answer
NotifyResponse(r) ==
    IF r.ok
    THEN Jsonify([result |-> "sent", message_id |-> r.text], 200)
    ELSE Jsonify([error |-> r.text], 500)

\* notify() recording the delivery on the device's document
notify_send_marking(w) ==
    LET p == inflight[w]
        id == p.req.data.device_id.v
        mark == [status |-> Str("notified")]
    IN  \E r \in PushOutcomes :
          /\ store' = Upsert(store, id, mark, clock)
          /\ Reply(p.req, NotifyResponse(r), p.ops \o <<SetOp(id, mark, TRUE)>>,
                   <<[msg |-> p.msg, result |-> r]>>, <<>>)
          /\ inflight' = [x \in DOMAIN inflight \ {w} |-> inflight[x]]
          /\ UNCHANGED <<API_KEY, clock>>

\* notify() sending a second time when the first send raised
notify_send_retrying(w) ==
    LET p == inflight[w]
    IN  \E r \in PushOutcomes :
          /\ IF r.ok
             THEN Reply(p.req, NotifyResponse(r), p.ops,
                        <<[msg |-> p.msg, result |-> r]>>, <<>>)
             ELSE \E r2 \in PushOutcomes :
                    Reply(p.req, NotifyResponse(r2), p.ops,
                          <<[msg |-> p.msg, result |-> r], [msg |-> p.msg, result |-> r2]>>,
                          <<>>)
          /\ inflight' = [x \in DOMAIN inflight \ {w} |-> inflight[x]]
          /\ UNCHANGED <<API_KEY, store, clock>>

\* notify() reading the token again right before the send
notify_send_rereading(w) ==
    LET p == inflight[w]
        id == p.req.data.device_id.v
        token == IF id \in DOMAIN store THEN Get(store[id], "fcm_token") ELSE Null
        msg == Message(token, p.msg.title, p.msg.body)
    IN  \E r \in PushOutcomes :
          /\ Reply(p.req, NotifyResponse(r), p.ops, <<[msg |-> msg, result |-> r]>>, <<>>)
          /\ inflight' = [x \in DOMAIN inflight \ {w} |-> inflight[x]]
          /\ UNCHANGED <<API_KEY, store, clock>>

\* notify() from messaging.send on, in the thread w
notify_send(w) ==
    LET p == inflight[w]
    IN  \E r \in PushOutcomes :
          /\ Reply(p.req, NotifyResponse(r), p.ops, <<[msg |-> p.msg, result |-> r]>>, <<>>)
          /\ inflight' = [x \in DOMAIN inflight \ {w} |-> inflight[x]]
          /\ UNCHANGED <<API_KEY, store, clock>>

\* the item without the document id
DeviceItemNoId(st, id) == st[id]

\* item = d.to_dict(); item['device_id'] = d.id
DeviceItem(st, id) ==
    [k \in DOMAIN st[id] \cup {"device_id"} |->
        IF k = "device_id" THEN Str(id) ELSE st[id][k]]

\* the orders in which stream() may yield the documents
StreamOrders(st) ==
    { o \in [1..Cardinality(DOMAIN st) -> DOMAIN st] :
        \A i, j \in DOMAIN o : i # j => o[i] # o[j] }

\* the list devices() builds from the documents streamed in order o
DeviceList(st, o) == [i \in DOMAIN o |-> DeviceItem(st, o[i])]

devices(req) ==
    /\ \E outcome \in StoreOutcomes :
         IF outcome = "ok"
         THEN \E o \in StreamOrders(store) :
                Reply(req,
                      [status |-> 200, kind |-> "list", ctype |-> "application/json",
                       body |-> DeviceList(store, o)],
                      <<StreamOp(TRUE)>>, <<>>, <<>>)
         ELSE Reply(req, InternalServerError, <<StreamOp(FALSE)>>, <<>>, <<>>)
    /\ UNCHANGED <<API_KEY, store, clock, inflight>>

\* heartbeat writing the fields of a registration as well
HeartbeatFieldsWithToken ==
    [last_seen |-> SERVER_TIMESTAMP, status |-> Str("online"), fcm_token |-> Null]

\* the fields heartbeat writes
HeartbeatFields == [last_seen |-> SERVER_TIMESTAMP, status |-> Str("online")]

heartbeat(req) ==
    LET data == req.data
        device_id == Get(data, "device_id")
    IN  IF ~Truthy(device_id)
        THEN /\ Reply(req, Jsonify([error |-> "missing device_id"], 400), <<>>, <<>>, <<>>)
             /\ UNCHANGED <<API_KEY, store, clock, inflight>>
        ELSE \E outcome \in DocumentOutcomes(device_id) :
               /\ IF outcome = "ok"
                  THEN /\ clock < MaxClock
                       /\ clock' = clock + 1
                       /\ store' = Upsert(store, device_id.v, HeartbeatFields, clock + 1)
                       /\ Reply(req,
                                Jsonify([result |-> "ok", device_id |-> device_id], 200),
                                <<SetOp(device_id.v, HeartbeatFields, TRUE)>>, <<>>, <<>>)
                  ELSE /\ UNCHANGED <<store, clock>>
                       /\ Reply(req, InternalServerError,
                                <<SetOp(device_id.v, HeartbeatFields, FALSE)>>, <<>>, <<>>)
               /\ UNCHANGED <<API_KEY, inflight>>

-----------------------------------------------------------------------------
(* Dispatch *)

\* view_functions[rule.endpoint]
View(req) ==
    CASE req.route = "/health" -> health(req)
      [] req.route = "/chat" -> chat(req)
      [] req.route = "/llm" -> llm(req)
      [] req.route = "/register-device" -> register_device(req)
      [] req.route = "/notify" -> notify(req)
      [] req.route = "/devices" -> devices(req)
      [] req.route = "/heartbeat" -> heartbeat(req)

\* Flask's full_dispatch_request: the before_request gate, then the routing
\* outcome (automatic OPTIONS response, 405), then the view function of
\* the matched rule
Dispatch(req) ==
    LET rv == require_api_key(req)
    IN  IF rv # Pass
        THEN /\ Reply(req, rv, <<>>, <<>>, <<>>)
             /\ UNCHANGED <<API_KEY, store, clock, inflight>>
        ELSE IF req.method = "OPTIONS"
        THEN /\ Reply(req, OptionsResponse, <<>>, <<>>, <<>>)
             /\ UNCHANGED <<API_KEY, store, clock, inflight>>
        ELSE IF req.method # RouteMethod[req.route]
        THEN /\ Reply(req, MethodNotAllowed, <<>>, <<>>, <<>>)
             /\ UNCHANGED <<API_KEY, store, clock, inflight>>
        ELSE View(req)

-----------------------------------------------------------------------------
(* The system *)

Init ==
    /\ API_KEY \in EnvValues
    /\ store = EmptyDict
    /\ clock = 0
    /\ inflight = EmptyDict
    /\ last = [req |-> NoRequest, resp |-> NoResponse,
               ops |-> <<>>, sends |-> <<>>, posts |-> <<>>]

\* the response has left the process
Respond ==
    /\ ~Idle
    /\ last' = [req |-> NoRequest, resp |-> NoResponse,
                ops |-> <<>>, sends |-> <<>>, posts |-> <<>>]
    /\ UNCHANGED <<API_KEY, store, clock, inflight>>

Health(profile) ==
    \E req \in Requests(profile, "/health") : Idle /\ Dispatch(req)
Chat(profile) ==
    \E req \in Requests(profile, "/chat") : Idle /\ Dispatch(req)
Llm(profile) ==
    \E req \in Requests(profile, "/llm") : Idle /\ Dispatch(req)
RegisterDevice(profile) ==
    \E req \in Requests(profile, "/register-device") : Idle /\ Dispatch(req)
Notify(profile) ==
    \E req \in Requests(profile, "/notify") : Idle /\ Dispatch(req)
NotifySend ==
    \E w \in DOMAIN inflight : Idle /\ notify_send(w)
ListDevices(profile) ==
    \E req \in Requests(profile, "/devices") : Idle /\ Dispatch(req)
Heartbeat(profile) ==
    \E req \in Requests(profile, "/heartbeat") : Idle /\ Dispatch(req)

\* the registry and relay under correctly keyed requests
Next ==
    \/ Health("core")
    \/ Chat("core")
    \/ Llm("core")
    \/ RegisterDevice("core")
    \/ Notify("core")
    \/ NotifySend
    \/ ListDevices("core")
    \/ Heartbeat("core")
    \/ Respond

Spec == Init /\ [][Next]_vars

\* the gate under every method, header value and configuration
NextGate ==
    \/ Health("gate")
    \/ Chat("gate")
    \/ Llm("gate")
    \/ RegisterDevice("gate")
    \/ Notify("gate")
    \/ NotifySend
    \/ ListDevices("gate")
    \/ Heartbeat("gate")
    \/ Respond

SpecGate == Init /\ [][NextGate]_vars

\* os.environ["API_KEY"] is assigned (or deleted) inside the running process
SetEnv ==
    /\ Idle
    /\ \E v \in EnvValues \ {API_KEY} : API_KEY' = v
    /\ UNCHANGED <<store, clock, inflight, last>>

\* the gate while the process environment may change
NextEnv ==
    \/ Health("gate")
    \/ Chat("gate")
    \/ Llm("gate")
    \/ RegisterDevice("gate")
    \/ Notify("gate")
    \/ NotifySend
    \/ ListDevices("gate")
    \/ Heartbeat("gate")
    \/ Respond
    \/ SetEnv

SpecEnv == Init /\ [][NextEnv]_vars

\* the handlers under a device_id of every JSON type
NextTyped ==
    \/ Health("typed")
    \/ Chat("typed")
    \/ Llm("typed")
    \/ RegisterDevice("typed")
    \/ Notify("typed")
    \/ NotifySend
    \/ ListDevices("typed")
    \/ Heartbeat("typed")
    \/ Respond

SpecTyped == Init /\ [][NextTyped]_vars

\* registrations, heartbeats and notifications of the same devices, in
\* every interleaving
NextRace ==
    \/ Health("race")
    \/ Chat("race")
    \/ Llm("race")
    \/ RegisterDevice("race")
    \/ Notify("race")
    \/ NotifySend
    \/ ListDevices("race")
    \/ Heartbeat("race")
    \/ Respond

SpecRace == Init /\ [][NextRace]_vars

-----------------------------------------------------------------------------
(* What the claims speak of *)

\* this step completes a request: its response is in last'
Completes == Idle /\ ~Idle'

\* the request l made no call to any collaborator
NoCalls(l) == l.ops = <<>> /\ l.sends = <<>> /\ l.posts = <<>>

\* the view function of l's route produced l's response (requests with the
\* canonical body: every view but chat calls a collaborator first)
HandlerInvoked(l) ==
    CASE l.req.route = "/health" -> l.resp.status = 200 /\ l.resp.kind = "object"
      [] l.req.route = "/chat" -> l.resp = Jsonify([response |-> "Echo: hi"], 200)
      [] l.req.route = "/llm" ->
            Len(l.posts) = 1 /\ l.resp = LlmResponse(l.posts[1].result)
      [] l.req.route \in {"/register-device", "/heartbeat"} ->
            Len(l.ops) = 1 /\ l.ops[1].op = "set"
      [] l.req.route = "/notify" -> Len(l.ops) = 1 /\ l.ops[1].op = "get"
      [] l.req.route = "/devices" -> Len(l.ops) = 1 /\ l.ops[1].op = "stream"

-----------------------------------------------------------------------------
(* The gate: C1, C2, C3 (checked under SpecGate) *)

\* C1: with a secret configured, a request that is not OPTIONS to one of the
\* six gated routes and whose X-API-Key is absent, empty or differs from the
\* secret (also only by case) is answered 401; its handler does not run, it
\* calls no collaborator, and the registry is as before the request.
C1_UnauthorizedShortCircuits ==
    [][ ( /\ Completes
          /\ Truthy(API_KEY)
          /\ last'.req.method # "OPTIONS"
          /\ last'.req.route \in GatedRoutes
          /\ last'.req.key # API_KEY )
        => ( /\ last'.resp.status = 401
             /\ last'.resp.kind = "object"
             /\ ~HandlerInvoked(last')
             /\ NoCalls(last')
             /\ store' = store
             /\ clock' = clock
             /\ inflight' = inflight ) ]_vars

\* a registration with the secret in the wrong case was answered 401 while
\* the device it names has no record
C1_Witness ==
    /\ last.req.route = "/register-device"
    /\ last.req.method = "POST"
    /\ last.req.key = Str("S3CRET")
    /\ last.resp.status = 401
    /\ "d1" \notin DOMAIN store

\* C2 as stated: no OPTIONS request and no request to /health, whatever its
\* method, is answered 401, and a correctly keyed request to a gated route
\* is answered by its handler.
C2_AnyRequestToHealth ==
    ~Idle =>
        /\ (last.req.method = "OPTIONS" \/ last.req.route = "/health")
              => last.resp.status # 401
        /\ ( /\ last.req.route \in GatedRoutes
             /\ last.req.method = RouteMethod[last.req.route]
             /\ last.req.key = API_KEY )
              => HandlerInvoked(last)

\* C2, amended: no OPTIONS request and no GET request to /health is
\* answered 401, whatever the secret and the header; a request to a gated
\* route with the route's method and a key equal to the secret is answered
\* by its handler.
C2_ExemptOrKeyedNever401 ==
    ~Idle =>
        /\ ( \/ last.req.method = "OPTIONS"
             \/ (last.req.route = "/health" /\ last.req.method = "GET") )
              => last.resp.status # 401
        /\ ( /\ last.req.route \in GatedRoutes
             /\ last.req.method = RouteMethod[last.req.route]
             /\ last.req.key = API_KEY )
              => (last.resp.status # 401 /\ HandlerInvoked(last))

\* with a secret configured, a health check without a key was answered 200
C2_Witness ==
    /\ API_KEY = Str(Secret)
    /\ last.req.route = "/health"
    /\ last.req.method = "GET"
    /\ last.req.key = Null
    /\ last.resp.status = 200

\* C3: with no secret configured (API_KEY unset or empty) no request is
\* answered 401, whatever its X-API-Key header; a request with its route's
\* method is answered by the route's handler.
C3_FailOpen ==
    (~Idle /\ ~Truthy(API_KEY)) =>
        /\ last.resp.status # 401
        /\ last.req.method = RouteMethod[last.req.route] => HandlerInvoked(last)

\* with API_KEY empty, a heartbeat carrying a wrong key reached the store
C3_Witness ==
    /\ API_KEY = Str("")
    /\ last.req.route = "/heartbeat"
    /\ last.req.key = Str("S3CRET")
    /\ last.resp.status = 200
    /\ "d1" \in DOMAIN store

-----------------------------------------------------------------------------
(* The registry and the notification relay: C4 to C10 (checked under Spec) *)

\* the JSON object `data` has no usable value under key k: the key is
\* absent, or its value is null or the empty string
Lacks(data, k) == k \notin DOMAIN data \/ data[k] \in {Null, Str("")}

\* the field map `doc` (or NoDocument) has no push token
NoToken(doc) == doc # NoDocument /\ Lacks(doc, "fcm_token")

\* field k is the same in the documents a and b (absent in both, or equal)
SameField(a, b, k) ==
    /\ (k \in DOMAIN a) <=> (k \in DOMAIN b)
    /\ k \in DOMAIN a => a[k] = b[k]

\* every document but d's is the same in the stores a and b
SameOthers(a, b, d) ==
    /\ DOMAIN a \ {d} = DOMAIN b \ {d}
    /\ \A o \in DOMAIN a \ {d} : a[o] = b[o]

\* C4: an authorized request that lacks its required field (device_id
\* absent, null or empty on /register-device, /heartbeat, /notify; message
\* absent or empty on /chat, /llm) is answered 400 with a JSON object and
\* makes no call to the store, the push service or the generation service.
C4_MissingFieldIs400 ==
    ( /\ ~Idle
      /\ last.resp.status # 401
      /\ last.req.method = RouteMethod[last.req.route]
      /\ \/ /\ last.req.route \in {"/register-device", "/heartbeat", "/notify"}
            /\ Lacks(last.req.data, "device_id")
         \/ /\ last.req.route \in {"/chat", "/llm"}
            /\ Lacks(last.req.data, "message") )
    => ( /\ last.resp.status = 400
         /\ last.resp.kind = "object"
         /\ "error" \in DOMAIN last.resp.body
         /\ NoCalls(last) )

\* a heartbeat with an empty device_id was answered 400
C4_Witness ==
    /\ last.req.route = "/heartbeat"
    /\ last.req.data = [device_id |-> Str("")]
    /\ last.resp.status = 400
    /\ NoCalls(last)

\* C5: a successful RegisterDevice(d, t) leaves d's record with fcm_token t
\* (null when the request supplied none) and status "online", leaves
\* last_seen of d as it was (absent or the same value) and every other
\* record as it was, and changes nothing when d's record already held
\* token t; every other step leaves fcm_token of every record as it is and
\* status "online", so the record holds the token of the latest registration.
C5_RegistrationIsMergeUpsert ==
    [][ \A d \in DeviceIds :
          LET before == GetDocument(store, d)
              after == GetDocument(store', d)
          IN  IF /\ Completes
                 /\ last'.req.route = "/register-device"
                 /\ last'.resp.status = 200
                 /\ Get(last'.req.data, "device_id") = Str(d)
              THEN LET t == Get(last'.req.data, "fcm_token")
                   IN  /\ after # NoDocument
                       /\ "fcm_token" \in DOMAIN after /\ after.fcm_token = t
                       /\ "status" \in DOMAIN after /\ after.status = Str("online")
                       /\ IF before = NoDocument
                          THEN "last_seen" \notin DOMAIN after
                          ELSE SameField(before, after, "last_seen")
                       /\ SameOthers(store, store', d)
                       /\ ( /\ before # NoDocument
                            /\ "fcm_token" \in DOMAIN before
                            /\ before.fcm_token = t ) => store' = store
              ELSE before # NoDocument =>
                       /\ after # NoDocument
                       /\ SameField(before, after, "fcm_token")
                       /\ after.status = Str("online") ]_vars

\* d1 was registered again, with token tB, after a heartbeat had stamped it
C5_Witness ==
    /\ last.req.route = "/register-device"
    /\ last.req.data = [device_id |-> Str("d1"), fcm_token |-> Str("tB")]
    /\ last.resp.status = 200
    /\ "d1" \in DOMAIN store
    /\ "last_seen" \in DOMAIN store["d1"]
    /\ store["d1"].fcm_token = Str("tB")
    /\ "d2" \in DOMAIN store

\* C6: Heartbeat(d) with a non-empty device_id makes one store call, a merge
\* set of {last_seen: server timestamp, status: "online"} on d's document;
\* when the store answers it, d's record exists with last_seen the server's
\* new timestamp and status "online", fcm_token of d and every other record
\* are as before, and the response is 200 {result: "ok", device_id: d}.
C6_HeartbeatFrame ==
    [][ \A d \in DeviceIds :
          ( /\ Completes
            /\ last'.req.route = "/heartbeat"
            /\ Get(last'.req.data, "device_id") = Str(d) )
          => LET before == GetDocument(store, d)
                 after == GetDocument(store', d)
             IN  /\ Len(last'.ops) = 1
                 /\ last'.ops[1].op = "set"
                 /\ last'.ops[1].id = d
                 /\ last'.ops[1].merge
                 /\ last'.ops[1].fields =
                        [last_seen |-> SERVER_TIMESTAMP, status |-> Str("online")]
                 /\ last'.ops[1].ok =>
                      /\ last'.resp =
                            Jsonify([result |-> "ok", device_id |-> Str(d)], 200)
                      /\ after # NoDocument
                      /\ clock' = clock + 1
                      /\ after.last_seen = Ts(clock')
                      /\ after.status = Str("online")
                      /\ IF before = NoDocument
                         THEN "fcm_token" \notin DOMAIN after
                         ELSE SameField(before, after, "fcm_token")
                      /\ SameOthers(store, store', d) ]_vars

\* a heartbeat created d2's record, which has no fcm_token, while d1 holds
\* a token
C6_Witness ==
    /\ last.req.route = "/heartbeat"
    /\ last.req.data = [device_id |-> Str("d2")]
    /\ last.resp.status = 200
    /\ "d2" \in DOMAIN store /\ "fcm_token" \notin DOMAIN store["d2"]
    /\ "d1" \in DOMAIN store /\ Get(store["d1"], "fcm_token") = Str("tA")

\* this step is notify() returning before any push send
NotifyReturnsEarly ==
    Completes /\ inflight' = inflight /\ last'.req.route = "/notify"

\* the requests that this step puts between their store read and their send
Entering == DOMAIN inflight' \ DOMAIN inflight

\* the requests whose push send this step performs
Sending == DOMAIN inflight \ DOMAIN inflight'

\* C7: when the store answers the read of a /notify request with a
\* non-empty device_id, a device without a record gets 404
\* {error: "unknown device"} and a device whose record has no fcm_token, a
\* null one or an empty one gets 400; neither request sends a push, and a
\* request goes on to the push send only for a record with a non-empty token.
C7_UnknownVersusNoToken ==
    [][ /\ \A d \in DeviceIds :
             ( /\ NotifyReturnsEarly
               /\ Get(last'.req.data, "device_id") = Str(d)
               /\ Len(last'.ops) = 1 /\ last'.ops[1].ok )
             => LET doc == GetDocument(store, d)
                IN  /\ last'.sends = <<>>
                    /\ doc = NoDocument =>
                          last'.resp = Jsonify([error |-> "unknown device"], 404)
                    /\ doc # NoDocument =>
                          /\ NoToken(doc)
                          /\ last'.resp.status = 400
                          /\ last'.resp.kind = "object"
                          /\ "error" \in DOMAIN last'.resp.body
        /\ \A w \in Entering :
             LET doc == GetDocument(store, inflight'[w].req.data.device_id.v)
             IN  doc # NoDocument /\ ~NoToken(doc) ]_vars

\* /notify for d1, registered with a null token, was answered 400 while
\* d2 has no record
C7_Witness ==
    /\ last.req.route = "/notify"
    /\ Get(last.req.data, "device_id") = Str("d1")
    /\ last.resp = Jsonify([error |-> "no fcm_token for device"], 400)
    /\ "d1" \in DOMAIN store /\ store["d1"].fcm_token = Null
    /\ "d2" \notin DOMAIN store

\* C8: when the store answers the read and the record of the device holds
\* a non-empty fcm_token t, /notify goes on to the push send with the
\* message (t, title, body), title being the request's title or "AJNA" when
\* the request has none, body the request's body or "" when it has none;
\* the request sends exactly that message, once, and when the push service
\* returns a message id the response is 200 {result: "sent", message_id}.
C8_SendsTokenTitleBody ==
    [][ /\ \A w \in Entering :
             LET p == inflight'[w]
                 data == p.req.data
                 doc == GetDocument(store, data.device_id.v)
             IN  /\ doc # NoDocument
                 /\ p.msg.token = doc.fcm_token
                 /\ p.msg.title =
                        (IF "title" \in DOMAIN data THEN data.title ELSE Str("AJNA"))
                 /\ p.msg.body =
                        (IF "body" \in DOMAIN data THEN data.body ELSE Str(""))
        /\ \A w \in Sending :
             /\ Completes
             /\ last'.req = inflight[w].req
             /\ Len(last'.sends) = 1
             /\ last'.sends[1].msg = inflight[w].msg
             /\ last'.sends[1].result.ok =>
                   last'.resp =
                     Jsonify([result |-> "sent",
                              message_id |-> last'.sends[1].result.text], 200)
        /\ \A d \in DeviceIds :
             ( /\ NotifyReturnsEarly
               /\ Get(last'.req.data, "device_id") = Str(d)
               /\ Len(last'.ops) = 1 /\ last'.ops[1].ok )
             => LET doc == GetDocument(store, d)
                IN  doc = NoDocument \/ NoToken(doc)
        /\ (Completes /\ last'.req.route = "/notify" /\ Sending = {})
             => last'.sends = <<>> ]_vars

\* a /notify request without title and body was sent as ("tA", "AJNA", "")
\* and answered 200 with the provider's message id
C8_Witness ==
    /\ last.req.route = "/notify"
    /\ last.req.data = [device_id |-> Str("d1")]
    /\ last.sends = <<[msg |-> Message(Str("tA"), Str("AJNA"), Str("")),
                       result |-> [ok |-> TRUE, text |-> "msg-1"]]>>
    /\ last.resp = Jsonify([result |-> "sent", message_id |-> "msg-1"], 200)

\* C9: no step of a /notify request (the store read, an early return, the
\* push send with either outcome) changes the registry, and a completed
\* /notify request has issued no store write.
C9_NotifyReadOnly ==
    [][ ( \/ Completes /\ last'.req.route = "/notify"
          \/ inflight' # inflight )
        => ( /\ store' = store
             /\ clock' = clock
             /\ Completes => \A i \in DOMAIN last'.ops : last'.ops[i].op # "set"
             /\ \A w \in Entering :
                  \A i \in DOMAIN inflight'[w].ops : inflight'[w].ops[i].op # "set" ) ]_vars

\* a /notify request ended in a delivery failure (500) with two records in
\* the registry
C9_Witness ==
    /\ last.req.route = "/notify"
    /\ last.resp.status = 500
    /\ last.resp.kind = "object"
    /\ Len(last.sends) = 1
    /\ DOMAIN store = {"d1", "d2"}

\* C10: a /devices request makes one stream call and changes no record;
\* when the store answers, the response is 200 with a list holding exactly
\* one entry per document of the collection, each entry the document's
\* fields plus its id under device_id, and the empty list for an empty
\* collection; no step removes a document, so every device written earlier
\* is listed.
C10_ListDevices ==
    [][ /\ DOMAIN store \subseteq DOMAIN store'
        /\ ( /\ Completes
             /\ last'.req.route = "/devices"
             /\ last'.req.method = "GET"
             /\ last'.resp.status # 401 )
           => /\ store' = store
              /\ Len(last'.ops) = 1
              /\ last'.ops[1].op = "stream"
              /\ last'.ops[1].ok =>
                   LET out == last'.resp.body
                   IN  /\ last'.resp.status = 200
                       /\ last'.resp.kind = "list"
                       /\ Len(out) = Cardinality(DOMAIN store)
                       /\ store = EmptyDict => out = <<>>
                       /\ \A d \in DOMAIN store :
                            \E i \in DOMAIN out :
                               /\ DOMAIN out[i] = DOMAIN store[d] \cup {"device_id"}
                               /\ out[i].device_id = Str(d)
                               /\ \A k \in DOMAIN store[d] : out[i][k] = store[d][k] ]_vars

\* a listing returned two entries, one of them for a record that a
\* heartbeat created
C10_Witness ==
    /\ last.req.route = "/devices"
    /\ last.resp.status = 200
    /\ last.resp.kind = "list"
    /\ Len(last.resp.body) = 2
    /\ \E i \in 1..2 : "fcm_token" \notin DOMAIN last.resp.body[i]

-----------------------------------------------------------------------------
(* The generation relay: C11 *)

\* l is a /llm request whose message is non-empty
HasMessage(l) ==
    /\ l.req.route = "/llm"
    /\ Truthy(GetDefault(l.req.data, "message", Str("")))

\* the provider answered with a 2xx status
Is2xx(r) == r.ok /\ r.status >= 200 /\ r.status < 300

\* C11 as stated: a /llm request with a non-empty message makes one
\* provider call and nothing else; a 2xx answer with a non-empty body is
\* returned verbatim with the provider's status, a 2xx answer with an empty
\* body gives 502, and a timeout, a connection error or any non-2xx status
\* gives 503; no other status is produced.
C11_Non2xxIs503 ==
    (~Idle /\ HasMessage(last)) =>
        /\ Len(last.posts) = 1
        /\ last.ops = <<>> /\ last.sends = <<>>
        /\ LET r == last.posts[1].result
           IN  /\ (Is2xx(r) /\ r.text # "") =>
                     /\ last.resp.status = r.status
                     /\ last.resp.kind = "raw"
                     /\ last.resp.body = [text |-> r.text]
               /\ (Is2xx(r) /\ r.text = "") =>
                     last.resp = Jsonify([error |-> "Empty response from LLM service"], 502)
               /\ ~Is2xx(r) => last.resp.status = 503
               /\ last.resp.status \in {r.status, 502, 503}

\* C11, amended: a /llm request with a non-empty message makes one provider
\* call and nothing else; an answer whose status is below 400 is returned
\* verbatim with the provider's status when its body is non-empty and gives
\* 502 when its body is empty; a timeout, a connection error or a 4xx/5xx
\* status gives 503; no other status is produced.
C11_ProviderCallDecides ==
    (~Idle /\ HasMessage(last)) =>
        /\ Len(last.posts) = 1
        /\ last.posts[1].payload = LlmPayload(last.req.data.message)
        /\ last.ops = <<>> /\ last.sends = <<>>
        /\ LET r == last.posts[1].result
               answered == r.ok /\ r.status < 400
           IN  /\ (answered /\ r.text # "") =>
                     /\ last.resp.status = r.status
                     /\ last.resp.kind = "raw"
                     /\ last.resp.body = [text |-> r.text]
               /\ (answered /\ r.text = "") =>
                     last.resp = Jsonify([error |-> "Empty response from LLM service"], 502)
               /\ ~answered =>
                     last.resp = Jsonify([error |-> "LLM service unavailable"], 503)
               /\ last.resp.status \in
                     (IF answered /\ r.text # "" THEN {r.status} ELSE {}) \cup {502, 503}

\* the provider answered 201 with a body and the relay answered 201 with
\* that body
C11_Witness ==
    /\ HasMessage(last)
    /\ last.posts[1].result.status = 201
    /\ last.posts[1].result.text = "{gen}"
    /\ last.resp.status = 201
    /\ last.resp.body = [text |-> "{gen}"]

-----------------------------------------------------------------------------
(* No retries: C12 *)

\* C12: a request attempts each collaborator operation at most once (at
\* most one store call, one push send, one generation post), also when the
\* attempt fails; a push send that raised is answered 500 and a generation
\* call that failed is answered 503, each after that one attempt; a request
\* waiting between its store read and its push send has made one store call.
C12_NoRetry ==
    /\ \A w \in DOMAIN inflight : Len(inflight[w].ops) = 1
    /\ ~Idle =>
        /\ Len(last.ops) <= 1
        /\ Len(last.sends) <= 1
        /\ Len(last.posts) <= 1
        /\ (last.ops # <<>> /\ ~last.ops[1].ok) =>
              (last.resp.status = 500 /\ last.sends = <<>>)
        /\ (last.sends # <<>> /\ ~last.sends[1].result.ok) =>
              last.resp.status = 500
        /\ (last.posts # <<>> /\
                ~(last.posts[1].result.ok /\ last.posts[1].result.status < 400)) =>
              last.resp.status = 503

\* a push send raised and the request was answered 500 after that attempt
C12_Witness ==
    /\ last.req.route = "/notify"
    /\ Len(last.sends) = 1
    /\ ~last.sends[1].result.ok
    /\ last.resp.status = 500

-----------------------------------------------------------------------------
(* The shape of error responses: C13 *)

\* C13: every response with status 400 or above is a JSON object with an
\* error field, whatever failed: the gate, a required field, the device
\* lookup, the generation service, the push send or a Document Store call.
C13_ErrorsAreJsonObjects ==
    (~Idle /\ last.resp.status >= 400) =>
        /\ last.resp.kind = "object"
        /\ last.resp.ctype = "application/json"
        /\ "error" \in DOMAIN last.resp.body

-----------------------------------------------------------------------------
(* Provider error detail: C14 *)

\* C14: the caller's response does not depend on the text of the error the
\* provider raised: when the generation call of a /llm request or the push
\* send of a /notify request raised, the response is the one the handler
\* builds for every other error text the provider may raise in its place.
C14_NoProviderDetail ==
    ~Idle =>
        /\ ( /\ last.req.route = "/llm"
             /\ last.posts # <<>>
             /\ ~last.posts[1].result.ok )
              => \A r2 \in LlmOutcomes : ~r2.ok => LlmResponse(r2) = last.resp
        /\ ( /\ last.req.route = "/notify"
             /\ last.sends # <<>>
             /\ ~last.sends[1].result.ok )
              => \A r2 \in PushOutcomes : ~r2.ok => NotifyResponse(r2) = last.resp

-----------------------------------------------------------------------------
(* The echo: C15 *)

-----------------------------------------------------------------------------
(* The relayed content type: C16 *)

\* C16: when the generation provider answers a /llm request successfully
\* with a non-empty body, the response to the caller carries the content
\* type the provider declared.
C16_ContentTypePreserved ==
    ( /\ ~Idle
      /\ HasMessage(last)
      /\ last.posts # <<>>
      /\ Is2xx(last.posts[1].result)
      /\ last.posts[1].result.text # "" )
    => last.resp.ctype = last.posts[1].result.ctype

-----------------------------------------------------------------------------
(* The type of device_id: C17 (checked under SpecTyped) *)

\* x is a JSON string other than ""
NonEmptyString(x) == x.t = "str" /\ x.v # ""

\* C17: a /register-device or /heartbeat request whose device_id is not a
\* non-empty string (absent, null, "", a number, a boolean, an array, an
\* object) makes no call to the Document Store and leaves every record as
\* it was.
C17_WriteOnlyForStringId ==
    [][ ( /\ Completes
          /\ last'.req.route \in {"/register-device", "/heartbeat"}
          /\ ~NonEmptyString(Get(last'.req.data, "device_id")) )
        => ( /\ last'.ops = <<>>
             /\ store' = store
             /\ clock' = clock ) ]_vars

-----------------------------------------------------------------------------
(* The secret over the life of the process: C18 (checked under SpecEnv) *)

\* C18: the gate's answer to a request is fixed at startup: no step of the
\* process, a change of the API_KEY environment value included, changes
\* whether the gate lets a given request through or answers it 401.
C18_SecretFixedAtStartup ==
    [][ \A r \in Routes : \A req \in Requests("gate", r) :
            (require_api_key(req))' = require_api_key(req) ]_vars

-----------------------------------------------------------------------------
(* Collaborators per operation: C19 *)

\* the collaborators the request l called
Collaborators(l) ==
    (IF l.ops # <<>> THEN {"store"} ELSE {})
    \cup (IF l.sends # <<>> THEN {"push"} ELSE {})
    \cup (IF l.posts # <<>> THEN {"generation"} ELSE {})

\* C19 as stated: every request calls at most one collaborator, and no
\* request is answered while another request is between two of its
\* external calls.
C19_OneCollaborator ==
    ~Idle =>
        /\ Cardinality(Collaborators(last)) <= 1
        /\ DOMAIN inflight = {}

\* C19, amended: every operation other than SendNotification makes at most
\* one external call, to one collaborator (Echo and the health check none,
\* Generate the generation service, RegisterDevice, Heartbeat and
\* ListDevices the Document Store); SendNotification calls two
\* collaborators, the Document Store (one read) and then, when the read
\* found a token, the push service (one send), and other requests may be
\* served between the two.
C19_OneCollaboratorButNotify ==
    /\ \A w \in DOMAIN inflight :
          /\ Len(inflight[w].ops) = 1
          /\ inflight[w].ops[1].op = "get"
          /\ inflight[w].ops[1].ok
    /\ ~Idle =>
        /\ last.req.route # "/notify" =>
              Len(last.ops) + Len(last.sends) + Len(last.posts) <= 1
        /\ last.req.route \in {"/health", "/chat"} => NoCalls(last)
        /\ last.req.route = "/llm" => Collaborators(last) \subseteq {"generation"}
        /\ last.req.route \in {"/register-device", "/heartbeat", "/devices"} =>
              Collaborators(last) \subseteq {"store"}
        /\ last.req.route = "/notify" =>
              /\ Collaborators(last) \subseteq {"store", "push"}
              /\ Len(last.ops) <= 1
              /\ Len(last.sends) <= 1
              /\ last.ops # <<>> => last.ops[1].op = "get"
              /\ last.sends # <<>> => (last.ops # <<>> /\ last.ops[1].ok)

\* a registration for d1 was answered while a /notify request for d1 was
\* between its store read and its push send
C19_Witness ==
    /\ last.req.route = "/register-device"
    /\ last.resp.status = 200
    /\ last.req.data.device_id = Str("d1")
    /\ \E w \in DOMAIN inflight : inflight[w].req.data.device_id = Str("d1")

-----------------------------------------------------------------------------
(* The token of a notification under concurrent registrations: C20 *)

\* a RegisterDevice(d, t) has just been answered 200
Registered(d, t) ==
    /\ last.req.route = "/register-device"
    /\ last.resp.status = 200
    /\ last.req.data.device_id = Str(d)
    /\ Get(last.req.data, "fcm_token") = t

\* a /notify request for d has just passed the token t to the push service
SentTo(d, t) ==
    /\ last.req.route = "/notify"
    /\ last.sends # <<>>
    /\ last.req.data.device_id = Str(d)
    /\ last.sends[1].msg.token = t

\* C20: in every interleaving of requests, (1) the token a /notify request
\* for d takes from its store read is the fcm_token of d's record at that
\* step, (2) no later step, a registration for d included, changes the
\* token the waiting request holds, (3) the push send passes exactly that
\* token, and (4) no token is sent for d before a RegisterDevice(d, token)
\* was answered 200.
C20_TokenOfOwnRead ==
    /\ [][ /\ \A w \in Entering :
                LET d == inflight'[w].req.data.device_id.v
                IN  /\ d \in DOMAIN store
                    /\ inflight'[w].msg.token = Get(store[d], "fcm_token")
           /\ \A w \in DOMAIN inflight \cap DOMAIN inflight' :
                inflight'[w] = inflight[w]
           /\ \A w \in Sending :
                /\ Len(last'.sends) = 1
                /\ last'.sends[1].msg.token = inflight[w].msg.token ]_vars
    /\ \A d \in DeviceIds : \A t \in TokenValues :
          ([]~Registered(d, t)) => [](~SentTo(d, t))

\* the push send for d1 passed tA, the token read before a registration of
\* tB for d1 completed: the record now holds tB
C20_Witness ==
    /\ SentTo("d1", Str("tA"))
    /\ Get(store["d1"], "fcm_token") = Str("tB")

-----------------------------------------------------------------------------
(* A record created by a heartbeat: C21 (checked under SpecRace) *)

\* this step answers a RegisterDevice for d with 200
RegistersNow(d) ==
    /\ Completes
    /\ last'.req.route = "/register-device"
    /\ last'.resp.status = 200
    /\ last'.req.data.device_id = Str(d)

\* this step answers a /notify request for d without a push send
NotifyAnsweredFor(d) ==
    /\ NotifyReturnsEarly
    /\ Get(last'.req.data, "device_id") = Str(d)

\* this step puts a /notify request for d between its read and its send
NotifyEntersFor(d) ==
    \E w \in Entering : inflight'[w].req.data.device_id = Str(d)

\* this step answers a /devices request whose stream call answered
ListedNow ==
    /\ Completes
    /\ last'.req.route = "/devices"
    /\ last'.ops # <<>>
    /\ last'.ops[1].ok

\* what a heartbeat for a device without a record does (both readings)
HeartbeatCreates(d) ==
    ( /\ Completes
      /\ last'.req.route = "/heartbeat"
      /\ last'.req.data.device_id = Str(d)
      /\ last'.resp.status = 200
      /\ d \notin DOMAIN store )
    => store'[d] = [last_seen |-> Ts(clock'), status |-> Str("online")]

\* /notify for a record without a usable token: never 404, never a send,
\* and 400 "no fcm_token for device" when the read answered
NotifyIs400(d) ==
    /\ NotifyAnsweredFor(d) =>
          /\ last'.resp.status # 404
          /\ last'.ops[1].ok =>
                last'.resp = Jsonify([error |-> "no fcm_token for device"], 400)
    /\ ~NotifyEntersFor(d)

\* C21 as stated: a heartbeat for a device without a record creates
\* {last_seen, status: "online"} and no fcm_token field; from then on, as
\* long as no RegisterDevice(d, non-empty token) is answered 200, the record
\* keeps having no fcm_token field, /notify for d is answered 400 and never
\* 404, and /devices lists d without an fcm_token field.
C21_NoFieldUntilToken ==
    [][ \A d \in DeviceIds :
          /\ HeartbeatCreates(d)
          /\ ( /\ d \in DOMAIN store
               /\ "fcm_token" \notin DOMAIN store[d]
               /\ ~(RegistersNow(d) /\ Truthy(Get(last'.req.data, "fcm_token"))) )
             => /\ d \in DOMAIN store'
                /\ "fcm_token" \notin DOMAIN store'[d]
                /\ NotifyIs400(d)
                /\ ListedNow =>
                     \E i \in DOMAIN last'.resp.body :
                        /\ last'.resp.body[i].device_id = Str(d)
                        /\ "fcm_token" \notin DOMAIN last'.resp.body[i] ]_vars

\* C21, amended: a heartbeat for a device without a record creates
\* {last_seen, status: "online"} and no fcm_token field. As long as no
\* RegisterDevice(d, .) at all is answered 200 the record keeps having no
\* fcm_token field and /devices lists d without it. As long as no
\* RegisterDevice(d, non-empty token) is answered 200 the record has no
\* usable token (field absent, null or ""), /notify for d is never answered
\* 404 and never sends, is answered 400 when its store read answers, and
\* /devices lists d with no usable token.
C21_NoTokenUntilToken ==
    [][ \A d \in DeviceIds :
          /\ HeartbeatCreates(d)
          /\ ( /\ d \in DOMAIN store
               /\ "fcm_token" \notin DOMAIN store[d]
               /\ ~RegistersNow(d) )
             => /\ d \in DOMAIN store'
                /\ "fcm_token" \notin DOMAIN store'[d]
                /\ ListedNow =>
                     \E i \in DOMAIN last'.resp.body :
                        /\ last'.resp.body[i].device_id = Str(d)
                        /\ "fcm_token" \notin DOMAIN last'.resp.body[i]
          /\ ( /\ NoToken(GetDocument(store, d))
               /\ ~(RegistersNow(d) /\ Truthy(Get(last'.req.data, "fcm_token"))) )
             => /\ NoToken(GetDocument(store', d))
                /\ NotifyIs400(d)
                /\ ListedNow =>
                     \E i \in DOMAIN last'.resp.body :
                        /\ last'.resp.body[i].device_id = Str(d)
                        /\ Lacks(last'.resp.body[i], "fcm_token") ]_vars

\* /notify for d2 was answered 400 while d2's record is the one a heartbeat
\* created and d1 holds a token
C21_Witness ==
    /\ last.req.route = "/notify"
    /\ last.req.data.device_id = Str("d2")
    /\ last.resp = Jsonify([error |-> "no fcm_token for device"], 400)
    /\ "d2" \in DOMAIN store
    /\ DOMAIN store["d2"] = {"last_seen", "status"}
    /\ "d1" \in DOMAIN store /\ Get(store["d1"], "fcm_token") = Str("tA")

-----------------------------------------------------------------------------
(* Registration and heartbeat in either order: C22 (checked under SpecRace) *)

\* the registry after RegisterDevice(d, t) and then Heartbeat(d), and after
\* Heartbeat(d) and then RegisterDevice(d, t), each write answered, from
\* the registry st with the server clock at now
RegisterThenHeartbeat(st, d, t, now) ==
    Upsert(Upsert(st, d, RegisterFields(t), now), d, HeartbeatFields, now + 1)
HeartbeatThenRegister(st, d, t, now) ==
    Upsert(Upsert(st, d, HeartbeatFields, now + 1), d, RegisterFields(t), now + 1)

\* C22: from every registry state the process reaches, RegisterDevice(d, t)
\* and Heartbeat(d) give the same registry in either order: d's record is
\* {fcm_token: t, status: "online", last_seen: the heartbeat's timestamp}
\* and every other record is as before; and in the runs themselves a
\* heartbeat answered after a registration keeps the registered token, and
\* a registration answered after a heartbeat keeps the heartbeat's
\* last_seen.
C22_RegisterHeartbeatCommute ==
    /\ [](\A d \in DeviceIds : \A t \in TokenValues :
            LET rh == RegisterThenHeartbeat(store, d, t, clock)
                hr == HeartbeatThenRegister(store, d, t, clock)
            IN  /\ rh = hr
                /\ rh[d] = [fcm_token |-> t, status |-> Str("online"),
                            last_seen |-> Ts(clock + 1)]
                /\ DOMAIN rh = DOMAIN store \cup {d}
                /\ \A e \in DOMAIN store \ {d} : rh[e] = store[e])
    /\ [][ \A d \in DeviceIds :
          /\ ( /\ Completes
               /\ last'.req.route = "/heartbeat"
               /\ last'.req.data.device_id = Str(d)
               /\ last'.resp.status = 200
               /\ d \in DOMAIN store
               /\ "fcm_token" \in DOMAIN store[d] )
             => store'[d] = [fcm_token |-> store[d].fcm_token,
                             status |-> Str("online"),
                             last_seen |-> Ts(clock')]
          /\ ( /\ RegistersNow(d)
               /\ d \in DOMAIN store
               /\ "last_seen" \in DOMAIN store[d] )
             => store'[d] = [fcm_token |-> Get(last'.req.data, "fcm_token"),
                             status |-> Str("online"),
                             last_seen |-> store[d].last_seen] ]_vars

\* RegisterDevice(d1, tB) was answered after a heartbeat for d1: the record
\* holds tB and the heartbeat's timestamp, and d2's record is untouched
C22_Witness ==
    /\ last.req.route = "/register-device"
    /\ last.resp.status = 200
    /\ last.req.data = [device_id |-> Str("d1"), fcm_token |-> Str("tB")]
    /\ "d1" \in DOMAIN store
    /\ store["d1"] = [fcm_token |-> Str("tB"), status |-> Str("online"),
                      last_seen |-> Ts(clock)]
    /\ clock > 0
    /\ "d2" \in DOMAIN store

====
